---- MODULE Spec2Model ----
(***************************************************************************)
(* Model of roth_conversion_analysis.py: the year-by-year retirement       *)
(* simulation run_scenario with its tax engine, RMD lookup, conversion     *)
(* sizer, withdrawal solver, IRMAA lookup and account roll-forward.        *)
(*                                                                         *)
(* Money is a whole number of tenths of a dollar (D(1) = one dollar), so   *)
(* that the solver's one-dollar tolerance is not the smallest step.  A     *)
(* product by a rate is rounded down to a tenth of a dollar.               *)
(***************************************************************************)
EXTENDS Integers, Sequences, FiniteSets, TLC

VARIABLES
    do_conversions,         \* argument of run_scenario
    initial_ira,            \* scenario parameter
    annual_spending_need,   \* scenario parameter
    chris_life_expectancy,  \* scenario parameter
    pc,                     \* position in run_scenario
    year, chris_age, mandy_age,
    trad_ira, roth_ira, taxable_account,
    total_ss, rmd, spending_need, conversion, std_deduction,
    additional_withdrawal, taxable_ss, taxable_income, federal_tax,
    iteration, converged,
    total_ira_distribution, \* local of run_scenario, kept across iterations
    results

vars == <<do_conversions, initial_ira, annual_spending_need,
          chris_life_expectancy, pc, year, chris_age, mandy_age,
          trad_ira, roth_ira, taxable_account,
          total_ss, rmd, spending_need, conversion, std_deduction,
          additional_withdrawal, taxable_ss, taxable_income, federal_tax,
          iteration, converged, total_ira_distribution, results>>

----------------------------------------------------------------------------
(* Arithmetic                                                              *)

D(dollars) == dollars * 10

\* Each helper binds its arguments once (u, v range over a singleton), so
\* that an argument that is itself a long computation is computed once.
Min(a, b) == CHOOSE m \in {IF u <= v THEN u ELSE v : u \in {a}, v \in {b}} : TRUE
Max(a, b) == CHOOSE m \in {IF u >= v THEN u ELSE v : u \in {a}, v \in {b}} : TRUE
Abs(a) == CHOOSE m \in {IF u >= 0 THEN u ELSE 0 - u : u \in {a}} : TRUE

\* floor(x * num / den) without forming x * num
MulDiv(x, num, den) ==
    CHOOSE m \in {(u \div den) * num + ((u % den) * num) \div den : u \in {x}} : TRUE

----------------------------------------------------------------------------
(* Module-level parameters                                                 *)

start_year == 2026
chris_age_2026 == 60
mandy_age_2026 == 62
mandy_life_expectancy == 85

chris_ss_annual == D(3500 * 12)
mandy_ss_annual == D(2000 * 12)
ss_start_age_chris == 67
ss_start_age_mandy == 67

investment_return_pct == 7
inflation_rate_pct == 3
capital_gains_rate_pct == 15

standard_deduction_2026 == D(32300)
top_of_24_bracket == D(383900)

Inf == 2000000000

\* (lower, upper, rate in percent)
tax_brackets_2026 ==
    << <<D(0),      D(23200),  10>>,
       <<D(23200),  D(94300),  12>>,
       <<D(94300),  D(201050), 22>>,
       <<D(201050), D(383900), 24>>,
       <<D(383900), D(487450), 32>>,
       <<D(487450), D(731200), 35>>,
       <<D(731200), Inf,       37>> >>

\* Uniform Lifetime Table, divisors times ten
rmd_table ==
    [a \in 73..95 |->
        CASE a = 73 -> 265 [] a = 74 -> 255 [] a = 75 -> 246 [] a = 76 -> 237
          [] a = 77 -> 229 [] a = 78 -> 220 [] a = 79 -> 211 [] a = 80 -> 202
          [] a = 81 -> 194 [] a = 82 -> 185 [] a = 83 -> 177 [] a = 84 -> 168
          [] a = 85 -> 160 [] a = 86 -> 152 [] a = 87 -> 144 [] a = 88 -> 137
          [] a = 89 -> 129 [] a = 90 -> 122 [] a = 91 -> 115 [] a = 92 -> 108
          [] a = 93 -> 101 [] a = 94 -> 95  [] a = 95 -> 89]

rmd_fallback == 89

----------------------------------------------------------------------------
(* Tax engine                                                              *)

RECURSIVE FederalTaxFrom(_, _, _)
FederalTaxFrom(i, income, tax) ==
    IF i > Len(tax_brackets_2026) THEN tax
    ELSE LET lower == tax_brackets_2026[i][1]
             upper == tax_brackets_2026[i][2]
             rate  == tax_brackets_2026[i][3]
             t2    == IF income > lower
                      THEN tax + MulDiv(Min(income, upper) - lower, rate, 100)
                      ELSE tax
         IN  IF income <= upper THEN t2 ELSE FederalTaxFrom(i + 1, income, t2)

calculate_federal_tax(income) == FederalTaxFrom(1, income, 0)

calculate_ss_taxable(ss_benefit, agi) ==
    IF ss_benefit = 0 THEN 0
    ELSE LET provisional_income == agi + ss_benefit \div 2
             threshold1 == D(32000)
             threshold2 == D(44000)
         IN  IF provisional_income <= threshold1 THEN 0
             ELSE IF provisional_income <= threshold2
             THEN Min(ss_benefit \div 2, (provisional_income - threshold1) \div 2)
             ELSE LET amount1 == Min(ss_benefit \div 2, (threshold2 - threshold1) \div 2)
                      amount2 == Min(MulDiv(ss_benefit, 85, 100) - amount1,
                                     MulDiv(provisional_income - threshold2, 85, 100))
                  IN  amount1 + amount2

----------------------------------------------------------------------------
(* run_scenario: what a loop iteration computes before the withdrawal      *)
(* solver starts, from the ages, the year and the beginning traditional    *)
(* balance.                                                                *)

\* the while-test with "and" for "or": stops at the first death
LoopConditionBothAlive ==
    chris_age <= chris_life_expectancy /\ mandy_age <= mandy_life_expectancy

\* the while-test with "<" for "<=": stops a year early
LoopConditionStrict ==
    chris_age < chris_life_expectancy \/ mandy_age < mandy_life_expectancy

LoopCondition ==
    chris_age <= chris_life_expectancy \/ mandy_age <= mandy_life_expectancy

chris_alive == chris_age <= chris_life_expectancy
mandy_alive == mandy_age <= mandy_life_expectancy
both_alive == chris_alive /\ mandy_alive

chris_ss == IF chris_age >= ss_start_age_chris /\ chris_alive THEN chris_ss_annual ELSE 0
mandy_ss == IF mandy_age >= ss_start_age_mandy /\ mandy_alive THEN mandy_ss_annual ELSE 0
SocialSecurity == chris_ss + mandy_ss

\* the RMD age taken over both individuals, alive or not
rmd_age_ignoring_death == Max(chris_age, mandy_age)

rmd_age == Max(IF chris_alive THEN chris_age ELSE 0,
               IF mandy_alive THEN mandy_age ELSE 0)

rmd_divisor(age) == IF age \in DOMAIN rmd_table THEN rmd_table[age] ELSE rmd_fallback

RmdCalculation ==
    IF rmd_age >= 73 /\ trad_ira > 0
    THEN MulDiv(trad_ira, 10, rmd_divisor(rmd_age))
    ELSE 0

\* annual_spending_need * (1 + inflation_rate) ** n
RECURSIVE Inflate(_, _)
Inflate(amount, n) ==
    IF n = 0 THEN amount
    ELSE Inflate(MulDiv(amount, 100 + inflation_rate_pct, 100), n - 1)

years_since_2026 == year - 2026
SpendingNeed == Inflate(annual_spending_need, years_since_2026)

StandardDeduction ==
    IF both_alive THEN standard_deduction_2026
    ELSE MulDiv(standard_deduction_2026, 70, 100)

(* Conversion sizer *)
ConversionGate == do_conversions /\ chris_age < 73

target_agi == top_of_24_bracket + StandardDeduction

tax_at_max ==
    calculate_federal_tax(
        Max(0, target_agi + calculate_ss_taxable(SocialSecurity, target_agi)
                 - StandardDeduction))

\* the sizer's spending withdrawal with the tax at the target left out
additional_for_spending_without_tax ==
    Max(0, SpendingNeed - (SocialSecurity + RmdCalculation))

additional_for_spending ==
    Max(0, (SpendingNeed + tax_at_max) - (SocialSecurity + RmdCalculation))

max_conversion == target_agi - RmdCalculation - additional_for_spending

RothConversion ==
    IF ConversionGate THEN Max(0, Min(max_conversion, trad_ira)) ELSE 0

----------------------------------------------------------------------------
(* Withdrawal solver: one pass of the for loop                             *)

PassTaxableSS == calculate_ss_taxable(total_ss, rmd + conversion + additional_withdrawal)

PassTaxableIncome ==
    Max(0, (rmd + conversion + additional_withdrawal) + PassTaxableSS - std_deduction)

PassFederalTax == calculate_federal_tax(PassTaxableIncome)

\* the solver's update with the federal tax left out of the cash needed
new_additional_without_tax == Max(0, spending_need - (total_ss + rmd))

new_additional == Max(0, (spending_need + PassFederalTax) - (total_ss + rmd))

Tolerance == D(1)

MaxPasses == 10

----------------------------------------------------------------------------
(* IRMAA lookup                                                            *)

base_part_b == D(185 * 12)
base_part_d == D(35 * 12)

irmaa(magi) ==
    IF magi <= D(206000) THEN base_part_b + base_part_d
    ELSE IF magi <= D(258000)
    THEN (base_part_b + MulDiv(base_part_b, 40, 100)) + (base_part_d + 129 * 12)
    ELSE IF magi <= D(322000)
    THEN (base_part_b + MulDiv(base_part_b, 100, 100)) + (base_part_d + 333 * 12)
    ELSE IF magi <= D(386000)
    THEN (base_part_b + MulDiv(base_part_b, 160, 100)) + (base_part_d + 538 * 12)
    ELSE IF magi <= D(750000)
    THEN (base_part_b + MulDiv(base_part_b, 220, 100)) + (base_part_d + 742 * 12)
    ELSE (base_part_b + MulDiv(base_part_b, 240, 100)) + (base_part_d + 810 * 12)

\* the value the IRMAA block reads as MAGI: the local total_ira_distribution
\* as it stands when the block runs, i.e. before this iteration assigns it
IrmaaMagi == total_ira_distribution

irmaa_premium ==
    (IF chris_alive /\ chris_age >= 65 THEN irmaa(IrmaaMagi) ELSE 0)
  + (IF mandy_alive /\ mandy_age >= 65 THEN irmaa(IrmaaMagi) ELSE 0)

\* total_ira_distribution has no value before the first iteration assigns it
Unbound == 0 - 1

IrmaaReadsUnbound ==
    /\ total_ira_distribution = Unbound
    /\ (chris_alive /\ chris_age >= 65) \/ (mandy_alive /\ mandy_age >= 65)

----------------------------------------------------------------------------
(* Account roll-forward                                                    *)

new_total_ira_distribution == rmd + conversion + additional_withdrawal

trad_ira_after_growth == trad_ira + MulDiv(trad_ira, investment_return_pct, 100)

roth_distribution ==
    IF trad_ira_after_growth >= new_total_ira_distribution THEN 0
    ELSE new_total_ira_distribution - trad_ira_after_growth

new_trad_ira ==
    IF trad_ira_after_growth >= new_total_ira_distribution
    THEN trad_ira_after_growth - new_total_ira_distribution
    ELSE 0

new_roth_ira ==
    ((roth_ira + conversion) + MulDiv(roth_ira + conversion, investment_return_pct, 100))
    - roth_distribution

cash_available == total_ss + rmd + additional_withdrawal
cash_needed == spending_need + federal_tax
surplus_or_deficit == cash_available - cash_needed

taxable_growth == MulDiv(taxable_account, investment_return_pct, 100)
capital_gains_tax == MulDiv(taxable_growth, capital_gains_rate_pct, 100)
taxable_account_after_tax == (taxable_account + taxable_growth) - capital_gains_tax

taxable_withdrawal ==
    IF surplus_or_deficit > 0 THEN 0
    ELSE IF surplus_or_deficit < 0 /\ taxable_account_after_tax > 0
    THEN Min(Abs(surplus_or_deficit), taxable_account_after_tax)
    ELSE 0

new_taxable_account ==
    IF surplus_or_deficit > 0 THEN taxable_account_after_tax + surplus_or_deficit
    ELSE taxable_account_after_tax - taxable_withdrawal

year_data ==
    [ Year                   |-> year,
      Chris_Age              |-> chris_age,
      Mandy_Age              |-> mandy_age,
      Trad_IRA_Begin         |-> trad_ira,
      Roth_IRA_Begin         |-> roth_ira,
      Taxable_Begin          |-> taxable_account,
      Social_Security        |-> total_ss,
      RMD                    |-> rmd,
      Spending_Need          |-> spending_need,
      Roth_Conversion        |-> conversion,
      Additional_Withdrawal  |-> additional_withdrawal,
      Taxable_SS             |-> taxable_ss,
      Taxable_Income         |-> taxable_income,
      Federal_Tax            |-> federal_tax,
      IRMAA_Premium          |-> irmaa_premium,
      Total_IRA_Distribution |-> new_total_ira_distribution,
      Trad_IRA_End           |-> new_trad_ira,
      Roth_Distribution      |-> roth_distribution,
      Roth_IRA_End           |-> new_roth_ira,
      Surplus_Deficit        |-> surplus_or_deficit,
      Taxable_Withdrawal     |-> taxable_withdrawal,
      Taxable_End            |-> new_taxable_account ]

----------------------------------------------------------------------------
(* The state machine                                                       *)

\* The scenario parameters are module-level values of the script and the
\* inputs of the simulation.  Each set holds the script's value (2,300,000;
\* 100,000; 95) and values that reach the other branches of the code: a
\* balance that runs out, one that outlasts the conversion years, a spending
\* need above the conversion target, a life beyond the RMD table.
InitialIras == {D(1000000), D(2300000), D(6000000)}
SpendingNeeds == {D(100000), D(400000)}
ChrisLifeExpectancies == {95, 97}

Init ==
    /\ do_conversions \in BOOLEAN
    /\ initial_ira \in InitialIras
    /\ annual_spending_need \in SpendingNeeds
    /\ chris_life_expectancy \in ChrisLifeExpectancies
    /\ pc = "while"
    /\ year = start_year
    /\ chris_age = chris_age_2026
    /\ mandy_age = mandy_age_2026
    /\ trad_ira = initial_ira
    /\ roth_ira = 0
    /\ taxable_account = 0
    /\ total_ss = 0
    /\ rmd = 0
    /\ spending_need = 0
    /\ conversion = 0
    /\ std_deduction = 0
    /\ additional_withdrawal = 0
    /\ taxable_ss = 0
    /\ taxable_income = 0
    /\ federal_tax = 0
    /\ iteration = 0
    /\ converged = FALSE
    /\ total_ira_distribution = Unbound
    /\ results = << >>

params == <<do_conversions, initial_ira, annual_spending_need, chris_life_expectancy>>
balances == <<trad_ira, roth_ira, taxable_account>>
clock == <<year, chris_age, mandy_age>>
yearly == <<total_ss, rmd, spending_need, conversion, std_deduction>>
solver == <<additional_withdrawal, taxable_ss, taxable_income, federal_tax,
            iteration, converged>>

\* while-test true: enter an iteration; lines 89-175
StartYear ==
    /\ pc = "while"
    /\ LoopCondition
    /\ total_ss' = SocialSecurity
    /\ rmd' = RmdCalculation
    /\ spending_need' = SpendingNeed
    /\ conversion' = RothConversion
    /\ std_deduction' = StandardDeduction
    /\ additional_withdrawal' = 0
    /\ iteration' = 0
    /\ converged' = FALSE
    /\ pc' = "for"
    /\ UNCHANGED <<params, balances, clock, taxable_ss, taxable_income,
                   federal_tax, total_ira_distribution, results>>

\* one pass of the solver's for loop; lines 177-204
SolverPass ==
    /\ pc = "for"
    /\ taxable_ss' = PassTaxableSS
    /\ taxable_income' = PassTaxableIncome
    /\ federal_tax' = PassFederalTax
    /\ additional_withdrawal' = new_additional
    /\ IF Abs(new_additional - additional_withdrawal) < Tolerance
       THEN /\ converged' = TRUE
            /\ iteration' = iteration
            /\ pc' = "store"
       ELSE /\ converged' = FALSE
            /\ iteration' = iteration + 1
            /\ pc' = IF iteration + 1 < MaxPasses THEN "for" ELSE "store"
    /\ UNCHANGED <<params, balances, clock, yearly, total_ira_distribution, results>>

\* rest of the iteration: store, IRMAA, roll-forward, append, advance;
\* lines 206-350
RollForward ==
    /\ pc = "store"
    /\ IF IrmaaReadsUnbound
       THEN /\ pc' = "raised"
            /\ UNCHANGED <<balances, clock, total_ira_distribution, results>>
       ELSE /\ results' = Append(results, year_data)
            /\ total_ira_distribution' = new_total_ira_distribution
            /\ trad_ira' = new_trad_ira
            /\ roth_ira' = new_roth_ira
            /\ taxable_account' = new_taxable_account
            /\ year' = year + 1
            /\ chris_age' = chris_age + 1
            /\ mandy_age' = mandy_age + 1
            /\ pc' = "while"
    /\ UNCHANGED <<params, yearly, solver>>

\* while-test false: return the records; line 352
Return ==
    /\ pc = "while"
    /\ ~LoopCondition
    /\ pc' = "done"
    /\ UNCHANGED <<params, balances, clock, yearly, solver,
                   total_ira_distribution, results>>

Next == StartYear \/ SolverPass \/ RollForward \/ Return

Spec == Init /\ [][Next]_vars

\* the interpreter runs the function to its end
FairSpec == Spec /\ WF_vars(Next)

----------------------------------------------------------------------------
(* Reading the yearly records                                              *)

Rec(i) == results[i]

Example ==
    /\ initial_ira = D(2300000)
    /\ annual_spending_need = D(100000)
    /\ chris_life_expectancy = 95

RecChrisAlive(r) == r.Chris_Age <= chris_life_expectancy
RecMandyAlive(r) == r.Mandy_Age <= mandy_life_expectancy

RecStdDeduction(r) ==
    IF RecChrisAlive(r) /\ RecMandyAlive(r) THEN D(32300) ELSE D(22610)

RecTotal(r) == r.RMD + r.Roth_Conversion + r.Additional_Withdrawal

\* number of alive individuals aged 65 or more in the record's year
RecMedicareCount(r) ==
    (IF RecChrisAlive(r) /\ r.Chris_Age >= 65 THEN 1 ELSE 0)
  + (IF RecMandyAlive(r) /\ r.Mandy_Age >= 65 THEN 1 ELSE 0)

\* maximum age among the individuals alive in the record's year
RecRmdAge(r) ==
    Max(IF RecChrisAlive(r) THEN r.Chris_Age ELSE 0,
        IF RecMandyAlive(r) THEN r.Mandy_Age ELSE 0)

----------------------------------------------------------------------------
(* C1: in every yearly record, of either scenario, the ending traditional, *)
(* Roth and taxable balances are all >= 0.                                 *)
C1_NoBalanceNegative ==
    \A i \in DOMAIN results :
        /\ Rec(i).Trad_IRA_End >= 0
        /\ Rec(i).Roth_IRA_End >= 0
        /\ Rec(i).Taxable_End >= 0

(* C2: in every year with an alive individual aged >= 65, the recorded     *)
(* IRMAA premium is the bracket value of that same record's total          *)
(* traditional-IRA distribution, once per such individual.                 *)
C2_IrmaaFromSameYear ==
    \A i \in DOMAIN results :
        RecMedicareCount(Rec(i)) > 0 =>
            Rec(i).IRMAA_Premium
                = RecMedicareCount(Rec(i)) * irmaa(Rec(i).Total_IRA_Distribution)

(* C3: a record has a non-zero Roth conversion only when conversions are   *)
(* enabled and the older of the two individuals is younger than 73, so no  *)
(* record has both a non-zero RMD and a non-zero conversion; the baseline  *)
(* never converts.                                                         *)
C3_ConversionOnlyBeforeOlderIs73 ==
    \A i \in DOMAIN results :
        /\ Rec(i).Roth_Conversion > 0 =>
              /\ do_conversions
              /\ Max(Rec(i).Chris_Age, Rec(i).Mandy_Age) < 73
        /\ ~(Rec(i).RMD > 0 /\ Rec(i).Roth_Conversion > 0)
        /\ ~do_conversions => Rec(i).Roth_Conversion = 0

C5_SolverConverges ==
    pc = "store" =>
        /\ converged
        /\ total_ss + rmd + additional_withdrawal
              >= (spending_need + federal_tax) - D(1)

(* C6: in every record, with W = RMD + Roth_Conversion + the recorded      *)
(* Additional_Withdrawal, Taxable_SS = calculate_ss_taxable(SS, W),        *)
(* Taxable_Income = max(0, W + Taxable_SS - standard deduction) and        *)
(* Federal_Tax = calculate_federal_tax(Taxable_Income).                    *)
C6_OutputsConsistentWithFinalWithdrawal ==
    \A i \in DOMAIN results :
        LET r == Rec(i)
            W == RecTotal(r)
        IN  /\ r.Taxable_SS = calculate_ss_taxable(r.Social_Security, W)
            /\ r.Taxable_Income = Max(0, W + r.Taxable_SS - RecStdDeduction(r))
            /\ r.Federal_Tax = calculate_federal_tax(r.Taxable_Income)

(* C7: run_scenario terminates, and its output holds exactly one record    *)
(* per loop iteration: the first for 2026 with the starting ages, each     *)
(* next one a year and a year of age later, a record for a year exactly    *)
(* when someone's age is within their life expectancy in that year.        *)
C7_OneRecordPerLivingYear ==
    /\ \A i \in DOMAIN results :
          /\ Rec(i).Year = 2026 + (i - 1)
          /\ Rec(i).Chris_Age = 60 + (i - 1)
          /\ Rec(i).Mandy_Age = 62 + (i - 1)
          /\ RecChrisAlive(Rec(i)) \/ RecMandyAlive(Rec(i))
    /\ Len(results) = year - 2026
    /\ pc = "done" =>
          \A k \in 1..60 :
              (\/ 60 + (k - 1) <= chris_life_expectancy
               \/ 62 + (k - 1) <= mandy_life_expectancy)
                  <=> k \in DOMAIN results

(* C7, whole claim: every reachable state has the one-record-per-living-   *)
(* year shape above, and every run of run_scenario reaches its return.     *)
C7_RunScenarioTerminates == [](C7_OneRecordPerLivingYear) /\ <>(pc = "done")

C7_Witness ==
    /\ pc = "done"
    /\ Len(results) > 24
    /\ ~RecMandyAlive(Rec(Len(results)))

(* C8 as stated: with the example parameters the baseline run returns      *)
(* exactly 24 records, for 2026 through 2049.                              *)
C8_TwentyFourRecords ==
    (pc = "done" /\ Example /\ ~do_conversions) =>
        /\ Len(results) = 24
        /\ Rec(24).Year = 2049

(* C8 amended: with the example parameters the baseline run returns        *)
(* exactly 36 records, one per year from 2026 through 2061, the last one   *)
(* being the year in which the individual aged 60 with expectancy 95       *)
(* reaches that expectancy.                                                *)
C8_ThirtySixRecords ==
    (pc = "done" /\ Example /\ ~do_conversions) =>
        /\ Len(results) = 36
        /\ \A i \in 1..36 : Rec(i).Year = 2025 + i
        /\ Rec(36).Year = 2061
        /\ Rec(36).Chris_Age = 95

C8_Witness == pc = "done" /\ Example /\ ~do_conversions /\ Len(results) > 0

(* C9: in every record the RMD follows from the maximum age among the      *)
(* individuals alive that year and the beginning traditional balance: 0    *)
(* below 73 or with no balance, balance / table[age] for 73..95, and       *)
(* balance / 8.9 beyond the table.                                         *)
C9_RmdByOldestAlive ==
    \A i \in DOMAIN results :
        LET r == Rec(i)
            age == RecRmdAge(r)
            bal == r.Trad_IRA_Begin
        IN  /\ (age < 73 \/ bal <= 0) => r.RMD = 0
            /\ (age \in 73..95 /\ bal > 0) => r.RMD = MulDiv(bal, 10, rmd_table[age])
            /\ (age > 95 /\ bal > 0) => r.RMD = MulDiv(bal, 10, 89)

C9_Witness ==
    /\ \E i \in DOMAIN results : RecRmdAge(Rec(i)) > 95 /\ Rec(i).RMD > 0
    /\ \E i \in DOMAIN results :
          /\ ~RecMandyAlive(Rec(i))
          /\ Rec(i).Mandy_Age > Rec(i).Chris_Age
          /\ RecRmdAge(Rec(i)) = Rec(i).Chris_Age
          /\ Rec(i).RMD > 0

(* C10: in every record the surplus Social_Security + RMD +                *)
(* Additional_Withdrawal - Spending_Need - Federal_Tax is >= 0, nothing is *)
(* withdrawn from the taxable account, and the taxable account does not    *)
(* shrink over the year.                                                   *)
C10_NoDeficit ==
    \A i \in DOMAIN results :
        LET r == Rec(i)
        IN  /\ r.Surplus_Deficit
                  = (r.Social_Security + r.RMD + r.Additional_Withdrawal)
                    - (r.Spending_Need + r.Federal_Tax)
            /\ r.Surplus_Deficit >= 0
            /\ r.Taxable_Withdrawal = 0
            /\ r.Taxable_End >= r.Taxable_Begin

\* a record written after the solver ran out of passes (its last pass still
\* moved the withdrawal by more than a dollar, so the taxable income of the
\* recorded withdrawal is two dollars or more above the recorded one), and a
\* record of a year that starts with money in the taxable account
C10_Witness ==
    /\ \E i \in DOMAIN results :
          Max(0, RecTotal(Rec(i))
                   + calculate_ss_taxable(Rec(i).Social_Security, RecTotal(Rec(i)))
                   - RecStdDeduction(Rec(i)))
              >= Rec(i).Taxable_Income + D(2)
    /\ \E i \in DOMAIN results :
          Rec(i).Taxable_Begin > 0 /\ Rec(i).Surplus_Deficit > 0

====
